---- MODULE Spec2Model ----
(***************************************************************************)
(* Model of roton's Recorder (src/src/recorder.rs): a pausable,            *)
(* segment-based screen-recording session that drives wl-screenrec, a     *)
(* PulseAudio mixing topology built with pactl, and an ffmpeg concat       *)
(* merge at finish.  Every public method takes &mut self, so each method   *)
(* is one atomic action; the outcomes of the external commands and system  *)
(* calls are the inputs of the action.                                     *)
(***************************************************************************)
EXTENDS Integers, Sequences, FiniteSets, TLC

\* ---------------------------------------------------------------- bounds
MaxStamp    == 2      \* distinct values of the time-of-day stamp in a segment name
MaxModules  == 3      \* size of the audio server's module table
MaxPid      == 2      \* process identifiers the OS hands out
NumCallers  == 2      \* threads that invoke the UI callbacks

Timestamps == 1..MaxStamp
ModuleIds  == 1..MaxModules
Pids       == 1..MaxPid
Callers    == 1..NumCallers

\* ------------------------------------------------------------ input sets
None       == "None"
AudioModes == {"Mute", "Screen", "Mic", "Both"}
MicDevs    == {None, "src.mic"}
MonDevs    == {None, "src.monitor"}
Geometries == {None}
FinalPaths == {"recording.mp4"}
NoProc     == 0
NoPath == 0
NoHolder   == 0
Absent     == << >>      \* content of a file that does not exist
Footage    == << "footage" >>   \* content of a file that holds recorded footage

\* Option<RecordingConfig>: the empty sequence is None, << c >> is Some(c).
NoConfig  == << >>
Some(c)   == << c >>
Unwrap(o) == o[1]

\* The RecordingConfig values start_session can store.  A device a mode
\* never reads is left out, and the one "Screen" and "Mic" read is given.
Configs == { c \in [geometry : Geometries, audio_mode : AudioModes,
                    mic_device : MicDevs, monitor_device : MonDevs,
                    final_path : FinalPaths] :
               /\ c.audio_mode \in {"Mute", "Screen"} => c.mic_device = None
               /\ c.audio_mode \in {"Mute", "Mic"} => c.monitor_device = None
               /\ c.audio_mode = "Screen" => c.monitor_device # None
               /\ c.audio_mode = "Mic" => c.mic_device # None }

VARIABLES
  process,        \* Recorder.process: NoProc or the pid of the held Child
  pulse_modules,  \* Recorder.pulse_modules: sequence of module ids
  config,         \* Recorder.config: NoConfig or Some(RecordingConfig)
  temp_segments,  \* Recorder.temp_segments: sequence of segment paths
  is_paused,      \* Recorder.is_paused
  dropped,        \* the Recorder has been dropped
  alive,          \* OS: capture processes spawned by the Recorder and not yet exited
  writing,        \* OS: for each capture process that is alive, the segment file
                  \* it writes (its --filename argument); NoPath for the others
  loaded_as,      \* history: for each module id the Recorder holds, the arguments
                  \* pactl loaded it with; NoModule for an id it does not hold
  seg_files,      \* temp dir: segment path -> content of the file, Absent if none
  final_files,    \* output dir: final path -> content of the file, Absent if none
  calls,          \* external calls issued by the last operation, in order
  lastOp,         \* the last operation, the config it was given and what it returned
  spawned,        \* history of the session: segment paths in the order their
                  \* capture processes were started
  resumes,        \* history: resume calls that started a segment
  startOk,        \* history: the start_session that began it returned Ok
  everStarted,    \* history: start_session has been called
  lock,           \* main: the holder of the Mutex around the Recorder, NoHolder if free
  pc,             \* main: for each caller of a UI callback, where it is in it
  inflight,       \* the call that is blocked in child.wait(), "none" if there is none
  signalled       \* the held capture process has been sent the interrupt

recorderVars == << process, pulse_modules, config, temp_segments, is_paused >>
vars == << process, pulse_modules, config, temp_segments, is_paused, dropped,
           alive, writing, loaded_as, seg_files, final_files, calls, lastOp,
           spawned, resumes, startOk, everStarted, lock, pc, inflight, signalled >>
callVars == << inflight, signalled >>

Range(f) == { f[i] : i \in DOMAIN f }

\* One entry of the call log.
Call(fn, arg, ok) == [fn |-> fn, arg |-> arg, ok |-> ok]

\* The Recorder together with the world it acts on, as one value the
\* methods transform.
Cur == [process |-> process, pulse_modules |-> pulse_modules, config |-> config,
        temp_segments |-> temp_segments, is_paused |-> is_paused,
        alive |-> alive, writing |-> writing, loaded_as |-> loaded_as, seg_files |-> seg_files,
        final_files |-> final_files,
        calls |-> << >>, ret |-> "Ok"]

\* Recorder::new
New == [process |-> NoProc, pulse_modules |-> << >>, config |-> NoConfig,
        temp_segments |-> << >>, is_paused |-> FALSE]

\* ------------------------------------------------- PulseAudio helper methods
\* The argument sets start_session passes to pactl load-module.
NullSink         == [module |-> "module-null-sink", sink |-> "RotonMixer", source |-> None]
Loopback(source) == [module |-> "module-loopback", sink |-> "RotonMixer", source |-> source]
NoModule         == [module |-> "none", sink |-> None, source |-> None]

FreeIds(s) == { i \in ModuleIds : s.loaded_as[i] = NoModule }
FreshId(s) == CHOOSE i \in FreeIds(s) : \A j \in FreeIds(s) : i <= j

\* load_pulse_module: the id is recorded only when pactl succeeded.
LoadPulseModule(s, args, ok) ==
  IF ok /\ FreeIds(s) # {}
  THEN [s EXCEPT !.pulse_modules = Append(@, FreshId(s)),
                 !.loaded_as = [@ EXCEPT ![FreshId(s)] = args],
                 !.calls = Append(@, Call("load", args, TRUE))]
  ELSE [s EXCEPT !.calls = Append(@, Call("load", args, FALSE))]

\* unload_pulse_modules giving up at the first unload that fails: the ids
\* after it get no unload.
UnloadPulseModules_StopsAtFailure(s, failing) ==
  LET bad  == { k \in 1..Len(s.pulse_modules) : s.pulse_modules[k] \in failing }
      upto == IF bad = {} THEN Len(s.pulse_modules)
              ELSE CHOOSE k \in bad : \A j \in bad : k <= j
  IN  [s EXCEPT !.pulse_modules = << >>,
                !.loaded_as = [i \in ModuleIds |->
                                 IF i \in Range(s.pulse_modules) THEN NoModule
                                 ELSE s.loaded_as[i]],
                !.calls = @ \o [k \in 1..upto |->
                                  Call("unload", s.pulse_modules[k],
                                       s.pulse_modules[k] \notin failing)]]

\* unload_pulse_modules: one unload per recorded id, results ignored, then
\* the list is cleared.  failing = the ids whose unload fails.
UnloadPulseModules(s, failing) ==
  [s EXCEPT !.pulse_modules = << >>,
            !.loaded_as = [i \in ModuleIds |->
                             IF i \in Range(s.pulse_modules) THEN NoModule
                             ELSE s.loaded_as[i]],
            !.calls = @ \o [k \in 1..Len(s.pulse_modules) |->
                              Call("unload", s.pulse_modules[k],
                                   s.pulse_modules[k] \notin failing)]]

\* ------------------------------------------------------------ the segment
\* The audio arguments start_segment gives wl-screenrec for a config.
AudioDevice(cfg) ==
  CASE cfg.audio_mode = "Screen" -> cfg.monitor_device
    [] cfg.audio_mode = "Mic"    -> cfg.mic_device
    [] cfg.audio_mode = "Both"   -> "RotonMixer.monitor"
    [] OTHER                     -> None

CaptureArgs(cfg, path) ==
  [file |-> path, geometry |-> cfg.geometry,
   audio |-> cfg.audio_mode \in {"Screen", "Mic", "Both"},
   audio_device |-> AudioDevice(cfg)]

\* start_segment with the new path put at the front of the list.
StartSegment_Prepends(s, stamp, spawnOk, pid) ==
  IF s.config = NoConfig
  THEN [s EXCEPT !.ret = "No configuration found"]
  ELSE IF spawnOk
       THEN [s EXCEPT !.process = pid,
                      !.alive = @ \cup {pid},
                      !.writing = [@ EXCEPT ![pid] = stamp],
                      !.temp_segments = << stamp >> \o @,
                      !.seg_files = [@ EXCEPT ![stamp] = Footage],
                      !.calls = Append(@, Call("spawn", CaptureArgs(Unwrap(s.config), stamp), TRUE)),
                      !.ret = "Ok"]
       ELSE [s EXCEPT !.calls = Append(@, Call("spawn", CaptureArgs(Unwrap(s.config), stamp), FALSE)),
                      !.ret = "Failed to start segment"]

\* start_segment: stamp = the time-of-day stamp that names the temp file,
\* which the spawned capture process creates.
StartSegment(s, stamp, spawnOk, pid) ==
  IF s.config = NoConfig
  THEN [s EXCEPT !.ret = "No configuration found"]
  ELSE IF spawnOk
       THEN [s EXCEPT !.process = pid,
                      !.alive = @ \cup {pid},
                      !.writing = [@ EXCEPT ![pid] = stamp],
                      !.temp_segments = Append(@, stamp),
                      !.seg_files = [@ EXCEPT ![stamp] = Footage],
                      !.calls = Append(@, Call("spawn", CaptureArgs(Unwrap(s.config), stamp), TRUE)),
                      !.ret = "Ok"]
       ELSE [s EXCEPT !.calls = Append(@, Call("spawn", CaptureArgs(Unwrap(s.config), stamp), FALSE)),
                      !.ret = "Failed to start segment"]

\* stop_current_process sending the signal without waiting for the child.
StopCurrentProcess_NoWait(s, killOk, waitOk) ==
  IF s.process = NoProc
  THEN s
  ELSE [s EXCEPT !.process = NoProc,
                 !.calls = @ \o << Call("kill", s.process, killOk) >>]

\* stop_current_process: take the handle, send SIGINT through kill(1), wait.
\* Both results are ignored; once wait has returned the child is gone.
StopCurrentProcess(s, killOk, waitOk) ==
  IF s.process = NoProc
  THEN s
  ELSE [s EXCEPT !.process = NoProc,
                 !.alive = @ \ {s.process},
                 !.writing = [@ EXCEPT ![s.process] = NoPath],
                 !.calls = @ \o << Call("kill", s.process, killOk),
                                   Call("wait", s.process, waitOk) >>]

\* ------------------------------------------------------------- public API
\* The mixer set up with the microphone loopback loaded before the sink.
SetupMixer_LoopbackFirst(s, cfg, loadOk) ==
  IF cfg.audio_mode = "Both" /\ cfg.mic_device # None /\ cfg.monitor_device # None
  THEN LoadPulseModule(
         LoadPulseModule(
           LoadPulseModule(s, Loopback(cfg.mic_device), loadOk[1]),
           NullSink, loadOk[2]),
         Loopback(cfg.monitor_device), loadOk[3])
  ELSE s

\* The mixer start_session sets up for "Both" when both devices are given:
\* three loads whose results are not looked at.
SetupMixer(s, cfg, loadOk) ==
  IF cfg.audio_mode = "Both" /\ cfg.mic_device # None /\ cfg.monitor_device # None
  THEN LoadPulseModule(
         LoadPulseModule(
           LoadPulseModule(s, NullSink, loadOk[1]),
           Loopback(cfg.mic_device), loadOk[2]),
         Loopback(cfg.monitor_device), loadOk[3])
  ELSE s

\* start_session: clear whatever the previous session left, set up the
\* mixer, save the config, start the first segment.
StartSession(s, cfg, killOk, waitOk, failing, loadOk, stamp, spawnOk, pid) ==
  LET stopped  == StopCurrentProcess(s, killOk, waitOk)
      unloaded == UnloadPulseModules(stopped, failing)
      cleared  == [unloaded EXCEPT !.temp_segments = << >>, !.is_paused = FALSE]
      mixed    == SetupMixer(cleared, cfg, loadOk)
      saved    == [mixed EXCEPT !.config = Some(cfg)]
  IN  StartSegment(saved, stamp, spawnOk, pid)

\* pause_session as a toggle: a pause of a paused session clears the flag.
PauseSession_Toggles(s, killOk, waitOk) ==
  IF ~s.is_paused
  THEN [StopCurrentProcess(s, killOk, waitOk) EXCEPT !.is_paused = TRUE, !.ret = "Ok"]
  ELSE [s EXCEPT !.is_paused = FALSE, !.ret = "Ok"]

\* pause_session tearing the mixer down together with the capture process.
PauseSession_Unloads(s, killOk, waitOk) ==
  IF ~s.is_paused
  THEN [UnloadPulseModules(StopCurrentProcess(s, killOk, waitOk), {})
          EXCEPT !.is_paused = TRUE, !.ret = "Ok"]
  ELSE [s EXCEPT !.ret = "Ok"]

\* pause_session
PauseSession(s, killOk, waitOk) ==
  IF ~s.is_paused
  THEN [StopCurrentProcess(s, killOk, waitOk) EXCEPT !.is_paused = TRUE, !.ret = "Ok"]
  ELSE [s EXCEPT !.ret = "Ok"]

\* resume_session starting a segment whether or not the session is paused.
ResumeSession_IgnoresFlag(s, stamp, spawnOk, pid) ==
  LET seg == StartSegment(s, stamp, spawnOk, pid)
  IN  IF seg.ret = "Ok" THEN [seg EXCEPT !.is_paused = FALSE] ELSE seg

\* resume_session: the flag is cleared only when the segment started.
ResumeSession(s, stamp, spawnOk, pid) ==
  IF s.is_paused
  THEN LET seg == StartSegment(s, stamp, spawnOk, pid)
       IN  IF seg.ret = "Ok" THEN [seg EXCEPT !.is_paused = FALSE] ELSE seg
  ELSE [s EXCEPT !.ret = "Ok"]

\* The manifest finish_session writes: one "file '<path>'" line per
\* segment, in list order.
Manifest(segs) == [k \in 1..Len(segs) |-> [file |-> segs[k]]]


\* "Cleanup temp segments": remove_file on every listed path, results
\* ignored; a path that is already gone fails.
CleanupSegments(s) ==
  LET segs == s.temp_segments
      there(k) == /\ s.seg_files[segs[k]] # Absent
                  /\ \A j \in 1..(k-1) : segs[j] # segs[k]
  IN  [s EXCEPT !.seg_files = [p \in Timestamps |->
                                 IF p \in Range(segs) THEN Absent ELSE s.seg_files[p]],
                !.calls = @ \o [k \in 1..Len(segs) |-> Call("remove", segs[k], there(k))]]

\* The tail of finish_session without the clearing of the segment list.
FinishOk_KeepsSegments(s) ==
  [CleanupSegments(s) EXCEPT !.config = NoConfig, !.ret = "Ok"]

\* The tail of finish_session after a successful move or merge.
FinishOk(s) ==
  [CleanupSegments(s) EXCEPT !.config = NoConfig, !.temp_segments = << >>, !.ret = "Ok"]

\* The single-segment move falling back to copy + remove on any rename error.
FinishSingle_AlwaysFallsBack(s, renameRes, copyOk, removeOk) ==
  LET src     == s.temp_segments[1]
      dst     == Unwrap(s.config).final_path
      there   == s.seg_files[src] # Absent
      rres    == IF there THEN renameRes ELSE "other"
      moved   == [s EXCEPT !.final_files = [@ EXCEPT ![dst] = s.seg_files[src]],
                           !.seg_files = [@ EXCEPT ![src] = Absent],
                           !.calls = Append(@, Call("rename", << src, dst, rres >>, TRUE))]
      refused == [s EXCEPT !.calls = Append(@, Call("rename", << src, dst, rres >>, FALSE))]
      copied  == [refused EXCEPT !.final_files = [@ EXCEPT ![dst] = s.seg_files[src]],
                                 !.calls = Append(@, Call("copy", << src, dst >>, TRUE))]
      fall    == rres # "ok"
  IN  CASE rres = "ok" -> FinishOk(moved)
        [] fall /\ ~copyOk ->
             [refused EXCEPT !.calls = Append(@, Call("copy", << src, dst >>, FALSE)),
                             !.ret = "copy failed"]
        [] fall /\ copyOk /\ ~removeOk ->
             [copied EXCEPT !.calls = Append(@, Call("remove", src, FALSE)),
                            !.ret = "remove failed"]
        [] fall /\ copyOk /\ removeOk ->
             FinishOk([copied EXCEPT !.seg_files = [@ EXCEPT ![src] = Absent],
                                     !.calls = Append(@, Call("remove", src, TRUE))])
        [] OTHER -> [refused EXCEPT !.ret = "rename failed"]

\* One segment: rename, with copy + remove_file on EXDEV (raw_os_error 18);
\* the rename call is logged with the kind of its result.
FinishSingle(s, renameRes, copyOk, removeOk) ==
  LET src     == s.temp_segments[1]
      dst     == Unwrap(s.config).final_path
      there   == s.seg_files[src] # Absent
      rres    == IF there THEN renameRes ELSE "other"
      moved   == [s EXCEPT !.final_files = [@ EXCEPT ![dst] = s.seg_files[src]],
                           !.seg_files = [@ EXCEPT ![src] = Absent],
                           !.calls = Append(@, Call("rename", << src, dst, rres >>, TRUE))]
      refused == [s EXCEPT !.calls = Append(@, Call("rename", << src, dst, rres >>, FALSE))]
      copied  == [refused EXCEPT !.final_files = [@ EXCEPT ![dst] = s.seg_files[src]],
                                 !.calls = Append(@, Call("copy", << src, dst >>, TRUE))]
      fall    == rres = "EXDEV"
  IN  CASE rres = "ok" -> FinishOk(moved)
        [] fall /\ ~copyOk ->
             [refused EXCEPT !.calls = Append(@, Call("copy", << src, dst >>, FALSE)),
                             !.ret = "copy failed"]
        [] fall /\ copyOk /\ ~removeOk ->
             [copied EXCEPT !.calls = Append(@, Call("remove", src, FALSE)),
                            !.ret = "remove failed"]
        [] fall /\ copyOk /\ removeOk ->
             FinishOk([copied EXCEPT !.seg_files = [@ EXCEPT ![src] = Absent],
                                     !.calls = Append(@, Call("remove", src, TRUE))])
        [] OTHER -> [refused EXCEPT !.ret = "rename failed"]

\* The merge with the segment files removed before ffmpeg's status is looked at.
FinishConcat_CleansFirst(s, writeOk, ffmpegRes) ==
  LET segs     == s.temp_segments
      dst      == Unwrap(s.config).final_path
      manifest == Manifest(segs)
      complete == \A k \in 1..Len(segs) : s.seg_files[segs[k]] # Absent
      fres     == IF ffmpegRes = "success" /\ ~complete THEN "nonzero" ELSE ffmpegRes
      written  == [s EXCEPT !.calls = Append(@, Call("write", manifest, TRUE))]
      ran(ok)  == [written EXCEPT !.calls = Append(@, Call("ffmpeg", << manifest, dst >>, ok))]
  IN  CASE ~writeOk ->
             [s EXCEPT !.calls = Append(@, Call("write", manifest, FALSE)),
                       !.ret = "write failed"]
        [] writeOk /\ fres = "launch_failed" ->
             [written EXCEPT !.ret = "ffmpeg not launched"]
        [] writeOk /\ fres = "nonzero" ->
             [CleanupSegments(ran(FALSE)) EXCEPT !.ret = "FFmpeg concat failed"]
        [] OTHER ->
             LET merged   == [ran(TRUE) EXCEPT !.final_files = [@ EXCEPT ![dst] = Footage]]
                 unlisted == [merged EXCEPT
                               !.calls = Append(@, Call("remove_list", manifest, TRUE))]
             IN  FinishOk(unlisted)

\* Several segments: write the manifest, run ffmpeg concat, remove the
\* manifest.
FinishConcat(s, writeOk, ffmpegRes) ==
  LET segs     == s.temp_segments
      dst      == Unwrap(s.config).final_path
      manifest == Manifest(segs)
      complete == \A k \in 1..Len(segs) : s.seg_files[segs[k]] # Absent
      fres     == IF ffmpegRes = "success" /\ ~complete THEN "nonzero" ELSE ffmpegRes
      written  == [s EXCEPT !.calls = Append(@, Call("write", manifest, TRUE))]
      ran(ok)  == [written EXCEPT !.calls = Append(@, Call("ffmpeg", << manifest, dst >>, ok))]
  IN  CASE ~writeOk ->
             [s EXCEPT !.calls = Append(@, Call("write", manifest, FALSE)),
                       !.ret = "write failed"]
        [] writeOk /\ fres = "launch_failed" ->
             [written EXCEPT !.ret = "ffmpeg not launched"]
        [] writeOk /\ fres = "nonzero" ->
             [ran(FALSE) EXCEPT !.ret = "FFmpeg concat failed"]
        [] OTHER ->
             LET merged   == [ran(TRUE) EXCEPT !.final_files = [@ EXCEPT ![dst] = Footage]]
                 unlisted == [merged EXCEPT
                               !.calls = Append(@, Call("remove_list", manifest, TRUE))]
             IN  FinishOk(unlisted)

\* finish_session with the config looked at before the segment list.
FinishSession_ConfigFirst(s, killOk, waitOk, failing, renameRes, copyOk, removeOk, writeOk, ffmpegRes) ==
  LET stopped  == StopCurrentProcess(s, killOk, waitOk)
      unloaded == UnloadPulseModules(stopped, failing)
  IN  IF unloaded.config = NoConfig THEN [unloaded EXCEPT !.ret = "Config lost"]
      ELSE IF unloaded.temp_segments = << >> THEN [unloaded EXCEPT !.ret = "No recordings made"]
      ELSE IF Len(unloaded.temp_segments) = 1
           THEN FinishSingle(unloaded, renameRes, copyOk, removeOk)
           ELSE FinishConcat(unloaded, writeOk, ffmpegRes)

\* finish_session
FinishSession(s, killOk, waitOk, failing, renameRes, copyOk, removeOk, writeOk, ffmpegRes) ==
  LET stopped  == StopCurrentProcess(s, killOk, waitOk)
      unloaded == UnloadPulseModules(stopped, failing)
  IN  IF unloaded.temp_segments = << >> THEN [unloaded EXCEPT !.ret = "No recordings made"]
      ELSE IF unloaded.config = NoConfig THEN [unloaded EXCEPT !.ret = "Config lost"]
      ELSE IF Len(unloaded.temp_segments) = 1
           THEN FinishSingle(unloaded, renameRes, copyOk, removeOk)
           ELSE FinishConcat(unloaded, writeOk, ffmpegRes)

\* impl Drop for Recorder
DropRecorder(s, killOk, waitOk, failing) ==
  [UnloadPulseModules(StopCurrentProcess(s, killOk, waitOk), failing) EXCEPT !.ret = "Ok"]

\* ----------------------------------------------------------------- actions
\* The segment paths of the capture processes a call log started, in order.
SpawnedBy(log) ==
  LET ok == SelectSeq(log, LAMBDA c : c.fn = "spawn" /\ c.ok)
  IN  [k \in 1..Len(ok) |-> ok[k].arg.file]

\* A session's history ends with the operation after a finish that
\* returned Ok, and with the next start_session.
Ended(op) == op = "start" \/ (lastOp.op = "finish" /\ lastOp.ret = "Ok")

\* An operation op, called with arg, has returned, leaving r.
Commit(op, arg, r) ==
  /\ process' = r.process
  /\ pulse_modules' = r.pulse_modules
  /\ config' = r.config
  /\ temp_segments' = r.temp_segments
  /\ is_paused' = r.is_paused
  /\ alive' = r.alive
  /\ writing' = r.writing
  /\ loaded_as' = r.loaded_as
  /\ seg_files' = r.seg_files
  /\ final_files' = r.final_files
  /\ calls' = r.calls
  /\ lastOp' = [op |-> op, arg |-> arg, ret |-> r.ret]
  /\ dropped' = (op = "drop")
  /\ everStarted' = (everStarted \/ op = "start")
  /\ startOk' = IF op = "start" THEN r.ret = "Ok" ELSE startOk /\ ~Ended(op)
  /\ spawned' = (IF Ended(op) THEN << >> ELSE spawned) \o SpawnedBy(r.calls)
  /\ resumes' = (IF Ended(op) THEN 0 ELSE resumes)
                  + (IF op = "resume" /\ SpawnedBy(r.calls) # << >> THEN 1 ELSE 0)

\* Results of kill and wait matter only when a process is held.
StopResults == IF process = NoProc THEN {TRUE} ELSE BOOLEAN
\* The results of the cleanup calls (kill, wait, unload) of one operation:
\* all succeed, or one of them fails.
Cleanups(killOk, waitOk, failing) ==
  \/ killOk /\ waitOk /\ failing = {}
  \/ ~killOk /\ waitOk /\ failing = {}
  \/ killOk /\ ~waitOk /\ failing = {}
  \/ killOk /\ waitOk /\ \E i \in ModuleIds : failing = {i}
\* The stamps the clock can give the next segment: the time of day is later
\* than when the session's last segment was started; a new session starts at
\* any time of day.
LaterStamps ==
  { t \in Timestamps : \A k \in 1..Len(temp_segments) : temp_segments[k] < t }

\* The pid the OS gives the next capture process: the lowest one not in use
\* once the held process is gone.
FreePids == Pids \ (alive \ {process})
NextPid  == { p \in FreePids : \A q \in FreePids : p <= q }
\* The same for an operation that spawns without stopping anything first.
UnusedPids    == Pids \ alive
NextUnusedPid == { p \in UnusedPids : \A q \in UnusedPids : p <= q }
\* The results of the three loads of one start_session: all succeed, or one
\* of them fails.
AllLoadsOk == [k \in 1..3 |-> TRUE]
LoadResults(cfg) ==
  IF cfg.audio_mode = "Both" /\ cfg.mic_device # None /\ cfg.monitor_device # None
  THEN {AllLoadsOk} \cup { [k \in 1..3 |-> k # f] : f \in 1..3 }
  ELSE {AllLoadsOk}

Start ==
  /\ ~dropped
  /\ \E killOk \in StopResults, waitOk \in StopResults,
        failing \in SUBSET Range(pulse_modules) :
       /\ Cleanups(killOk, waitOk, failing)
       /\ \E stamp \in Timestamps, spawnOk \in BOOLEAN :
            /\ ~spawnOk => stamp = 1
            /\ \E cfg \in Configs, pid \in NextPid :
                 \E loadOk \in LoadResults(cfg) :
                   \E r \in {StartSession(Cur, cfg, killOk, waitOk, failing, loadOk,
                                          stamp, spawnOk, pid)} :
                     Commit("start", Some(cfg), r)
  /\ UNCHANGED << lock, pc, inflight, signalled >>

Pause ==
  /\ ~dropped
  /\ \E killOk \in StopResults, waitOk \in StopResults :
       /\ Cleanups(killOk, waitOk, {})
       /\ \E r \in {PauseSession(Cur, killOk, waitOk)} : Commit("pause", NoConfig, r)
  /\ UNCHANGED << lock, pc, inflight, signalled >>

Resume ==
  /\ ~dropped
  /\ \E stamp \in LaterStamps, spawnOk \in BOOLEAN, pid \in NextUnusedPid :
       /\ ~spawnOk => \A t \in LaterStamps : stamp <= t
       /\ \E r \in {ResumeSession(Cur, stamp, spawnOk, pid)} : Commit("resume", NoConfig, r)
  /\ UNCHANGED << lock, pc, inflight, signalled >>

RenameResults == {"ok", "EXDEV", "other"}
FfmpegResults == {"success", "nonzero", "launch_failed"}
\* The results finish_session looks at: those of the move when there is one
\* segment, those of the merge when there are more.
Consulted(renameRes, copyOk, removeOk, writeOk, ffmpegRes) ==
  /\ Len(temp_segments) # 1 => renameRes = "ok"
  /\ renameRes # "EXDEV" => copyOk
  /\ ~copyOk => removeOk
  /\ Len(temp_segments) < 2 => writeOk
  /\ ~writeOk \/ Len(temp_segments) < 2 => ffmpegRes = "success"

Finish ==
  /\ ~dropped
  /\ \E killOk \in StopResults, waitOk \in StopResults,
        failing \in SUBSET Range(pulse_modules) :
       /\ Cleanups(killOk, waitOk, failing)
       /\ \E renameRes \in RenameResults, copyOk \in BOOLEAN, removeOk \in BOOLEAN,
             writeOk \in BOOLEAN, ffmpegRes \in FfmpegResults :
            /\ Consulted(renameRes, copyOk, removeOk, writeOk, ffmpegRes)
            /\ \E r \in {FinishSession(Cur, killOk, waitOk, failing, renameRes,
                                       copyOk, removeOk, writeOk, ffmpegRes)} :
                 Commit("finish", NoConfig, r)
  /\ UNCHANGED << lock, pc, inflight, signalled >>

Drop ==
  /\ ~dropped
  /\ \E killOk \in StopResults, waitOk \in StopResults,
        failing \in SUBSET Range(pulse_modules) :
       /\ Cleanups(killOk, waitOk, failing)
       /\ \E r \in {DropRecorder(Cur, killOk, waitOk, failing)} : Commit("drop", NoConfig, r)
  /\ UNCHANGED << lock, pc, inflight, signalled >>

Init ==
  /\ process = New.process
  /\ pulse_modules = New.pulse_modules
  /\ config = New.config
  /\ temp_segments = New.temp_segments
  /\ is_paused = New.is_paused
  /\ dropped = FALSE
  /\ alive = {}
  /\ writing = [p \in Pids |-> NoPath]
  /\ loaded_as = [i \in ModuleIds |-> NoModule]
  /\ seg_files = [p \in Timestamps |-> Absent]
  /\ final_files = [p \in FinalPaths |-> Absent]
  /\ calls = << >>
  /\ lastOp = [op |-> "new", arg |-> NoConfig, ret |-> "Ok"]
  /\ spawned = << >>
  /\ resumes = 0
  /\ startOk = FALSE
  /\ everStarted = FALSE
  /\ lock = NoHolder
  /\ pc = [c \in Callers |-> "idle"]
  /\ inflight = "none"
  /\ signalled = FALSE

Next == Start \/ Pause \/ Resume \/ Finish \/ Drop

Spec == Init /\ [][Next]_vars

\* ------------------------------------------------- the callbacks of main
\* main wraps the one Recorder in Arc<Mutex<..>>; each callback takes the
\* lock, calls the Recorder while it holds the guard, and gives the lock back
\* when the guard goes out of scope at the end of the `if let`.
sessionVars == << process, pulse_modules, config, temp_segments, is_paused, dropped,
                  alive, writing, loaded_as, seg_files, final_files, calls, lastOp,
                  spawned, resumes, startOk, everStarted >>

\* Mutex::lock handing the lock out whether or not it is held.
MutexLock_NotExclusive(c) == lock' = c

\* Mutex::lock: blocks while another caller holds the lock.
MutexLock(c) == lock = NoHolder /\ lock' = c

\* on_start_recording up to `recorder.lock()`.
OnStartRecording_Lock(c) ==
  /\ pc[c] = "idle"
  /\ MutexLock(c)
  /\ pc' = [pc EXCEPT ![c] = "start"]
  /\ UNCHANGED << sessionVars, callVars >>

\* on_start_recording under the guard: the call of the Recorder.  The
\* cleanup calls and the module loads succeed here.
OnStartRecording_Call(c) ==
  /\ pc[c] = "start"
  /\ \E cfg \in Configs, stamp \in Timestamps, spawnOk \in BOOLEAN, pid \in NextPid :
       /\ ~spawnOk => stamp = 1
       /\ \E r \in {StartSession(Cur, cfg, TRUE, TRUE, {}, AllLoadsOk,
                                  stamp, spawnOk, pid)} : Commit("start", Some(cfg), r)
  /\ pc' = [pc EXCEPT ![c] = "return"]
  /\ UNCHANGED << lock, callVars >>

\* on_stop_recording up to `recorder.lock()`.
OnStopRecording_Lock(c) ==
  /\ pc[c] = "idle"
  /\ MutexLock(c)
  /\ pc' = [pc EXCEPT ![c] = "stop"]
  /\ UNCHANGED << sessionVars, callVars >>

\* on_stop_recording under the guard: the call of the Recorder.
OnStopRecording_Call(c) ==
  /\ pc[c] = "stop"
  /\ \E renameRes \in RenameResults, copyOk \in BOOLEAN, removeOk \in BOOLEAN,
        writeOk \in BOOLEAN, ffmpegRes \in FfmpegResults :
       /\ Consulted(renameRes, copyOk, removeOk, writeOk, ffmpegRes)
       /\ \E r \in {FinishSession(Cur, TRUE, TRUE, {}, renameRes,
                                  copyOk, removeOk, writeOk, ffmpegRes)} :
            Commit("finish", NoConfig, r)
  /\ pc' = [pc EXCEPT ![c] = "return"]
  /\ UNCHANGED << lock, callVars >>

\* The guard goes out of scope at the end of the callback.
Unlock(c) ==
  /\ pc[c] = "return"
  /\ lock' = NoHolder
  /\ pc' = [pc EXCEPT ![c] = "idle"]
  /\ UNCHANGED << sessionVars, callVars >>

LockNext ==
  \E c \in Callers :
    \/ OnStartRecording_Lock(c)
    \/ OnStartRecording_Call(c)
    \/ OnStopRecording_Lock(c)
    \/ OnStopRecording_Call(c)
    \/ Unlock(c)

SpecLock == Init /\ [][LockNext]_vars

\* ------------------------------------------------- calls that can block
\* pause_session and finish_session step by step: stop_current_process
\* sends the interrupt through kill(1) and then blocks in child.wait()
\* until the capture process has exited; the rest of the method runs after
\* that.  start_session and resume_session are taken in one step, the
\* cleanup calls and the module loads succeeding.
fileVars == << process, pulse_modules, config, temp_segments, is_paused, dropped,
               loaded_as, seg_files, final_files, calls, lastOp,
               spawned, resumes, startOk, everStarted >>

LiveStart ==
  /\ inflight = "none"
  /\ \E stamp \in Timestamps, spawnOk \in BOOLEAN :
       /\ ~spawnOk => stamp = 1
       /\ \E cfg \in Configs, pid \in NextPid :
            \E r \in {StartSession(Cur, cfg, TRUE, TRUE, {}, AllLoadsOk,
                                   stamp, spawnOk, pid)} : Commit("start", Some(cfg), r)
  /\ UNCHANGED << lock, pc, callVars >>

LiveResume ==
  /\ inflight = "none"
  /\ \E stamp \in LaterStamps, spawnOk \in BOOLEAN, pid \in NextUnusedPid :
       /\ ~spawnOk => \A t \in LaterStamps : stamp <= t
       /\ \E r \in {ResumeSession(Cur, stamp, spawnOk, pid)} : Commit("resume", NoConfig, r)
  /\ UNCHANGED << lock, pc, callVars >>

\* pause_session enters stop_current_process: with a process held,
\* `kill -s INT` is run, and the interrupt is delivered when it succeeded.
CallPause ==
  /\ inflight = "none"
  /\ \E killOk \in StopResults :
       signalled' = (process # NoProc /\ killOk)
  /\ inflight' = "pause"
  /\ UNCHANGED << sessionVars, lock, pc >>

\* finish_session enters stop_current_process, likewise.
CallFinish ==
  /\ inflight = "none"
  /\ \E killOk \in StopResults :
       signalled' = (process # NoProc /\ killOk)
  /\ inflight' = "finish"
  /\ UNCHANGED << sessionVars, lock, pc >>

\* The capture process exits after it got the interrupt.
ChildExits ==
  /\ inflight # "none"
  /\ signalled
  /\ process \in alive
  /\ alive' = alive \ {process}
  /\ writing' = [writing EXCEPT ![process] = NoPath]
  /\ UNCHANGED << fileVars, lock, pc, callVars >>

\* child.wait() returns once the held process is gone; with no process
\* held there is nothing to wait for.
WaitOver == process \notin alive

\* pause_session returns.
ReturnPause ==
  /\ inflight = "pause"
  /\ WaitOver
  /\ \E r \in {PauseSession(Cur, TRUE, TRUE)} : Commit("pause", NoConfig, r)
  /\ inflight' = "none"
  /\ signalled' = FALSE
  /\ UNCHANGED << lock, pc >>

\* finish_session goes on to the move or the merge, and returns.
ReturnFinish ==
  /\ inflight = "finish"
  /\ WaitOver
  /\ \E renameRes \in RenameResults, copyOk \in BOOLEAN, removeOk \in BOOLEAN,
        writeOk \in BOOLEAN, ffmpegRes \in FfmpegResults :
       /\ Consulted(renameRes, copyOk, removeOk, writeOk, ffmpegRes)
       /\ \E r \in {FinishSession(Cur, TRUE, TRUE, {}, renameRes,
                                  copyOk, removeOk, writeOk, ffmpegRes)} :
            Commit("finish", NoConfig, r)
  /\ inflight' = "none"
  /\ signalled' = FALSE
  /\ UNCHANGED << lock, pc >>

LiveNext ==
  \/ LiveStart
  \/ LiveResume
  \/ CallPause
  \/ CallFinish
  \/ ChildExits
  \/ ReturnPause
  \/ ReturnFinish

\* A capture process that got the interrupt exits, and a call that is not
\* blocked runs on to its return (the merge tool exits).
SpecLive ==
  /\ Init /\ [][LiveNext]_vars
  /\ WF_vars(ChildExits)
  /\ WF_vars(ReturnPause)
  /\ WF_vars(ReturnFinish)

\* ------------------------------------------------------------- vocabulary
\* The session states of the design, read off the Recorder's fields.
Recording == process # NoProc
Paused    == process = NoProc /\ is_paused /\ config # NoConfig /\ temp_segments # << >>
Active    == Recording \/ Paused
IdleState == process = NoProc /\ config = NoConfig /\ temp_segments = << >>

\* The errors finish_session returns from its move and merge steps.
FinalizeErrors == {"rename failed", "copy failed", "remove failed", "write failed",
                   "ffmpeg not launched", "FFmpeg concat failed"}

CallsOf(fns)   == SelectSeq(calls, LAMBDA c : c.fn \in fns)
Issued(fns)    == \E k \in DOMAIN calls : calls[k].fn \in fns
AudioCalls     == {"load", "unload"}
ProcessCalls   == {"kill", "wait", "spawn"}
FileCalls      == {"rename", "copy", "remove", "write", "remove_list", "ffmpeg"}

\* The last operation was start_session in mode Both ...
StartedBoth     == lastOp.op = "start" /\ Unwrap(lastOp.arg).audio_mode = "Both"
\* ... with both devices given / with one of them missing.
BothComplete(c) == c.mic_device # None /\ c.monitor_device # None
StartedBothFull == StartedBoth /\ BothComplete(Unwrap(lastOp.arg))
StartedBothPart == StartedBoth /\ ~BothComplete(Unwrap(lastOp.arg))

\* ------------------------------------------------------------------ claims
\* C1: in every reachable state where a session is active (Recording or
\* Paused), start_session returns an AlreadyRecording error and restarts
\* nothing: the capture process, the segment list, the loaded audio modules
\* and the stored config are unchanged by the call.
C1_StartRejectedWhileActive ==
  [][ (Active /\ lastOp'.op = "start")
        => /\ lastOp'.ret = "AlreadyRecording"
           /\ UNCHANGED << process, alive, temp_segments, pulse_modules, config >> ]_vars

\* C2: whenever finish_session is called on a Recording or Paused session and
\* the move or the merge fails, the error is returned and the session is Idle
\* afterwards: no capture process, no stored config, no recorded audio
\* module, paused flag clear.
C2_FailedFinishLeavesIdle ==
  [][ (Active /\ lastOp'.op = "finish" /\ lastOp'.ret \in FinalizeErrors)
        => /\ process' = NoProc
           /\ config' = NoConfig
           /\ pulse_modules' = << >>
           /\ ~is_paused' ]_vars

\* C3: if start_session fails because the capture process cannot be spawned,
\* it returns the error, the session is Idle (no config, no process, no
\* segment) and every audio module loaded in that call has been unloaded (the
\* recorded module list is empty).
C3_SpawnFailureRollsBack ==
  (lastOp.op = "start" /\ lastOp.ret = "Failed to start segment")
    => /\ IdleState
       /\ pulse_modules = << >>

\* C4: start_session in mode Both with a device identifier missing returns a
\* config-validation error, spawns no capture process, issues no audio-server
\* call and leaves the session Idle.
C4_BothNeedsBothDevices ==
  StartedBothPart
    => /\ lastOp.ret # "Ok"
       /\ ~Issued({"spawn"})
       /\ ~Issued(AudioCalls)
       /\ IdleState

\* C5: in mode Both with both devices given, if the null-sink load fails then
\* no loopback load is attempted afterwards, no capture process is spawned,
\* start_session returns an error (RoutingFailed) and the session stays Idle
\* with an empty recorded module list.
NullSinkFailed ==
  \E k \in DOMAIN calls : calls[k] = Call("load", NullSink, FALSE)
C5_SinkFailureStopsStart ==
  (StartedBothFull /\ NullSinkFailed)
    => /\ \A k \in DOMAIN calls :
            calls[k].fn = "load" => calls[k].arg = NullSink
       /\ ~Issued({"spawn"})
       /\ lastOp.ret # "Ok"
       /\ IdleState
       /\ pulse_modules = << >>

\* C6: in mode Both with both devices given and every load succeeding,
\* start_session issues exactly one null-sink load, then the loopback load of
\* the microphone, then that of the monitor, both into the mixer sink, all
\* before the capture process is spawned; pause_session and resume_session
\* issue no load.
AllLoadsSucceeded == \A k \in DOMAIN calls : calls[k].fn = "load" => calls[k].ok
C6_MixerLoadedBeforeSpawn ==
  /\ (StartedBothFull /\ AllLoadsSucceeded)
       => /\ CallsOf({"load"}) =
               << Call("load", NullSink, TRUE),
                  Call("load", Loopback(Unwrap(lastOp.arg).mic_device), TRUE),
                  Call("load", Loopback(Unwrap(lastOp.arg).monitor_device), TRUE) >>
          /\ \A i, j \in DOMAIN calls :
               (calls[i].fn = "load" /\ calls[j].fn = "spawn") => i < j
  /\ lastOp.op \in {"pause", "resume"} => ~Issued({"load"})
C6_Witness ==
  /\ StartedBothFull /\ AllLoadsSucceeded /\ lastOp.ret = "Ok"
  /\ Len(CallsOf({"load"})) = 3
  /\ Issued({"spawn"})

\* C7: in a session begun by a successful start_session, with N resumes that
\* started a segment, the segment list has N+1 entries, in the order in which
\* their capture processes were started, and the manifest finish_session
\* writes and hands to ffmpeg lists exactly those paths in that order.
SessionOver == lastOp.op = "finish" /\ lastOp.ret = "Ok"
C7_SegmentsInRecordingOrder ==
  /\ (startOk /\ ~SessionOver)
       => /\ temp_segments = spawned
          /\ Len(temp_segments) = resumes + 1
  /\ (startOk /\ lastOp.op = "finish")
       => /\ Len(spawned) = resumes + 1
          /\ resumes >= 1 => Issued({"write"})
          /\ \A k \in DOMAIN calls :
               /\ calls[k].fn = "write" => calls[k].arg = Manifest(spawned)
               /\ calls[k].fn = "ffmpeg" => calls[k].arg[1] = Manifest(spawned)
C7_Witness ==
  /\ startOk /\ SessionOver /\ resumes >= 1
  /\ Issued({"ffmpeg"})
  /\ Len(spawned) = 2 /\ spawned[1] # spawned[2]

\* C8: a successful start_session followed by finish_session with no resume
\* in between, the move of the single segment succeeding, returns Ok, leaves a
\* file at the final path, an empty segment list, an empty recorded module
\* list and no capture process.
MoveSucceeded == \E k \in DOMAIN calls : calls[k].fn = "rename" /\ calls[k].ok
MovedTo       == { calls[k].arg[2] : k \in { i \in DOMAIN calls : calls[i].fn = "rename" } }
C8_StartThenFinish ==
  (startOk /\ lastOp.op = "finish" /\ resumes = 0 /\ MoveSucceeded)
    => /\ lastOp.ret = "Ok"
       /\ \A p \in MovedTo : final_files[p] # Absent
       /\ temp_segments = << >>
       /\ pulse_modules = << >>
       /\ process = NoProc /\ alive = {}
\* finish_session found the process of the first segment still running.
C8_Witness ==
  /\ startOk /\ lastOp.op = "finish" /\ resumes = 0 /\ MoveSucceeded
  /\ Issued({"kill"})
  /\ lastOp.ret = "Ok"

\* C9: finish_session on a Recorder on which start_session was never called
\* returns "No recordings made", issues no audio-server call, no signal, wait
\* or spawn, no filesystem call, and changes nothing.
C9_FinishWithoutStart ==
  [][ (~everStarted /\ lastOp'.op = "finish")
        => /\ lastOp'.ret = "No recordings made"
           /\ calls' = << >>
           /\ UNCHANGED << recorderVars, alive, loaded_as, seg_files, final_files >> ]_vars
C9_Witness ==
  ~everStarted /\ lastOp.op = "finish" /\ lastOp.ret = "No recordings made"

\* C10: when finish_session runs with two or more segments and ffmpeg exits
\* non-zero, it returns "FFmpeg concat failed" having removed no file: every
\* segment file of the session is still on disk.
ConcatFailed == lastOp.op = "finish" /\ lastOp.ret = "FFmpeg concat failed"
C10_ConcatFailureKeepsSegments ==
  ConcatFailed
    => /\ Len(temp_segments) >= 2
       /\ \A k \in DOMAIN temp_segments : seg_files[temp_segments[k]] = Footage
       /\ ~Issued({"remove", "remove_list"})
C10_Witness ==
  /\ ConcatFailed
  /\ Len(temp_segments) >= 2
  /\ \E k \in DOMAIN calls : calls[k].fn = "ffmpeg" /\ ~calls[k].ok

\* C11: pausing a session that is already paused and tearing down an audio
\* route that is already empty are no-ops.  A pause_session called in a
\* Paused state returns Ok, issues no external call (no signal is sent) and
\* leaves the Recorder, the processes, the modules and the files as they
\* were; an operation that tears the route down (start, finish, drop) while
\* no module id is recorded issues no unload, and finish and drop leave the
\* list empty.
C11_SecondPauseChangesNothing ==
  [][ /\ (Paused /\ lastOp'.op = "pause") =>
           /\ lastOp'.ret = "Ok"
           /\ calls' = << >>
           /\ UNCHANGED << recorderVars, alive, writing, loaded_as, seg_files, final_files >>
      /\ (pulse_modules = << >> /\ lastOp'.op \in {"start", "finish", "drop"}) =>
           /\ ~Issued({"unload"})'
           /\ lastOp'.op \in {"finish", "drop"} => pulse_modules' = << >> ]_vars
\* A pause that sent no signal has returned in a paused session.
C11_Witness ==
  /\ Paused /\ startOk
  /\ lastOp.op = "pause" /\ lastOp.ret = "Ok"
  /\ calls = << >>

\* The failed rename calls of the last operation, as positions in its log.
FailedMoves == { k \in DOMAIN calls : calls[k].fn = "rename" /\ ~calls[k].ok }
\* C12: the single-segment move of finish_session.  When the rename failed
\* with the cross-device error, the next call copies the segment to the
\* final path, and after a successful copy the next call removes the segment;
\* when both succeeded the final file holds the footage, the temp path is
\* gone and finish returned Ok.  When the rename failed with any other error,
\* finish returned an error, issued no copy and no remove, and kept the
\* segment in its list.
C12_CrossDeviceFallback ==
  lastOp.op = "finish" =>
    \A k \in FailedMoves :
      LET src == calls[k].arg[1]
          dst == calls[k].arg[2]
      IN  IF calls[k].arg[3] = "EXDEV"
          THEN /\ Len(calls) > k
               /\ calls[k+1].fn = "copy" /\ calls[k+1].arg = << src, dst >>
               /\ calls[k+1].ok =>
                    /\ Len(calls) > k + 1
                    /\ calls[k+2].fn = "remove" /\ calls[k+2].arg = src
                    /\ calls[k+2].ok =>
                         /\ final_files[dst] = Footage
                         /\ seg_files[src] = Absent
                         /\ lastOp.ret = "Ok"
               /\ ~calls[k+1].ok => ~Issued({"remove"}) /\ lastOp.ret = "copy failed"
          ELSE /\ lastOp.ret = "rename failed"
               /\ ~Issued({"copy", "remove"})
               /\ temp_segments = << src >>
\* A finish whose rename failed across devices has copied and removed the
\* segment, and another has returned the error of a rename that failed
\* otherwise.
C12_Witness ==
  /\ lastOp.op = "finish" /\ lastOp.ret = "Ok"
  /\ \E k \in FailedMoves :
       /\ calls[k].arg[3] = "EXDEV"
       /\ calls[k+1].fn = "copy" /\ calls[k+1].ok
       /\ calls[k+2].fn = "remove" /\ calls[k+2].ok
       /\ final_files[calls[k].arg[2]] = Footage
       /\ seg_files[calls[k].arg[1]] = Absent

\* The module ids the last operation asked pactl to unload, in order.
Unloaded == [k \in 1..Len(CallsOf({"unload"})) |-> CallsOf({"unload"})[k].arg]
\* C13: pause_session and resume_session leave the audio route and the
\* config alone.  A pause or a resume changes neither the recorded module
\* ids, nor what they were loaded as, nor the stored config, and issues no
\* load and no unload; so the ids start_session recorded are still the
\* recorded ones when finish_session is called, and finish asks for the
\* unload of each of them once, in order, and leaves none recorded.
C13_PauseResumeKeepRoute ==
  [][ /\ lastOp'.op \in {"pause", "resume"} =>
           /\ UNCHANGED << pulse_modules, loaded_as, config >>
           /\ ~Issued(AudioCalls)'
      /\ lastOp'.op = "finish" =>
           /\ Unloaded' = pulse_modules
           /\ pulse_modules' = << >>
           /\ \A i \in Range(pulse_modules) : loaded_as'[i] = NoModule ]_vars
\* A session that loaded the three mixer modules was paused and resumed,
\* and its finish has unloaded the three.
C13_Witness ==
  /\ lastOp.op = "finish" /\ startOk /\ resumes >= 1
  /\ Len(Unloaded) = 3
  /\ pulse_modules = << >>

\* What the recorded module ids were loaded as, in the order of the list.
RecordedModules == [k \in 1..Len(pulse_modules) |-> loaded_as[pulse_modules[k]]]
\* The complete mixer topology of a configuration.
MixerOf(cfg) == << NullSink, Loopback(cfg.mic_device), Loopback(cfg.monitor_device) >>
\* C14: the recorded module set is never a partial mixer.  In every state
\* the recorded ids are none at all, or one null-sink and two loopbacks (the
\* microphone's and the monitor's), whichever of the loads failed.
C14_RouteEmptyOrComplete ==
  \/ pulse_modules = << >>
  \/ /\ config # NoConfig
     /\ RecordedModules = MixerOf(Unwrap(config))

\* The entries of the segment list whose file a capture process that is
\* still alive writes to, as positions in the list.
StillRecorded ==
  { k \in DOMAIN temp_segments : \E p \in alive : writing[p] = temp_segments[k] }
\* C15 as stated: a path is in the segment list only after the capture
\* process that writes it has exited, so no entry of the list belongs to a
\* capture process that is still alive.
C15_ListedOnlyAfterExit == StillRecorded = {}
\* C15 as the code has it: start_segment appends the path when the capture
\* process has been spawned, so the last entry of the list is the file of
\* the process that is alive and every entry before it belongs to a process
\* that has exited; while no process is alive no entry is being written to,
\* and that is the case whenever finish_session has touched the files.
C15_OnlyLastEntryStillRecorded ==
  /\ StillRecorded \subseteq {Len(temp_segments)}
  /\ alive # {} => StillRecorded = {Len(temp_segments)}
  /\ Issued(FileCalls) => alive = {}
\* A second segment is being recorded while the first one, whose process
\* has exited, is listed before it.
C15_Witness ==
  /\ Len(temp_segments) = 2
  /\ alive # {}
  /\ StillRecorded = {2}

\* Within the log of the last operation, every spawn comes after the kill
\* and the wait of the process that was held.
StoppedBeforeSpawn ==
  \A i, j \in DOMAIN calls :
    calls[i].fn \in {"kill", "wait"} /\ calls[j].fn = "spawn" => i < j
\* C16: one capture process at a time.  In every state at most one capture
\* process is alive, and a process that is alive is the one the handle
\* holds; an operation that spawned a process while one was held has first
\* sent the held one the signal and waited for it.
C16_OneCaptureProcess ==
  /\ Cardinality(alive) <= 1
  /\ alive \subseteq {process}
  /\ process # NoProc => alive = {process}
  /\ StoppedBeforeSpawn
\* A start_session called while a capture process was running has stopped
\* it and holds the process it spawned.
C16_Witness ==
  /\ lastOp.op = "start" /\ lastOp.ret = "Ok"
  /\ Issued({"kill"}) /\ Issued({"wait"})
  /\ process # NoProc /\ alive = {process}

\* The calls of the last operation that failed, among those named.
Failed(fns) == { k \in DOMAIN calls : calls[k].fn \in fns /\ ~calls[k].ok }
\* C17: no failure of a spawn or of a termination is swallowed.  When the
\* spawn of start_session or resume_session failed, the call returned an
\* error and made no second spawn attempt; when the signal or the wait of
\* pause_session or finish_session failed, the call returned an error.
C17_ProcessFailuresReturned ==
  /\ (lastOp.op \in {"start", "resume"} /\ Failed({"spawn"}) # {}) =>
       /\ lastOp.ret # "Ok"
       /\ Len(CallsOf({"spawn"})) = 1
  /\ (lastOp.op \in {"pause", "finish"} /\ Failed({"kill", "wait"}) # {}) =>
       lastOp.ret # "Ok"

\* The recorded module ids include the mixer's null-sink.
RouteActive == \E i \in Range(pulse_modules) : loaded_as[i] = NullSink
\* C18: the capture reads the mixer's monitor exactly when the mixer
\* exists.  For every capture process the last operation spawned, its audio
\* device is RotonMixer.monitor if and only if the recorded modules include
\* the RotonMixer null-sink.
C18_MixerMonitorIffRoute ==
  \A k \in DOMAIN calls :
    (calls[k].fn = "spawn" /\ calls[k].ok) =>
      (calls[k].arg.audio_device = "RotonMixer.monitor" <=> RouteActive)

\* C19: the teardown of finish_session and of the drop is a complete
\* best-effort sweep.  Whatever the state before and whatever finish
\* returns, a finish or a drop has asked for the unload of every module id
\* that was recorded, in order and whichever of the unloads failed, has left
\* no id recorded, and has sent the held capture process the signal and
\* waited for it, before anything else, leaving no process held or alive.
C19_TeardownSweepsAll ==
  [][ lastOp'.op \in {"finish", "drop"} =>
        /\ Unloaded' = pulse_modules
        /\ pulse_modules' = << >>
        /\ process' = NoProc /\ alive' = {}
        /\ process # NoProc =>
             /\ Len(calls') >= 2
             /\ calls'[1].fn = "kill" /\ calls'[1].arg = process
             /\ calls'[2].fn = "wait" /\ calls'[2].arg = process ]_vars
\* A teardown went on after an unload that failed: a later module was
\* unloaded all the same, after the capture process was stopped.
C19_Witness ==
  /\ lastOp.op \in {"finish", "drop"}
  /\ Issued({"kill"}) /\ Issued({"wait"})
  /\ \E j, k \in DOMAIN calls :
       /\ j < k
       /\ calls[j].fn = "unload" /\ ~calls[j].ok
       /\ calls[k].fn = "unload"
  /\ pulse_modules = << >>

\* The callers that are between taking the lock and giving it back.
Inside == { c \in Callers : pc[c] # "idle" }
\* C20: the Recorder is used under one mutex.  At any time at most one
\* caller is inside a callback's locked section, which spans the whole call
\* of the Recorder, and that caller is the holder of the lock; so an
\* operation starts only when no other is under way.
C20_OneCallerInside ==
  /\ Cardinality(Inside) <= 1
  /\ \A c \in Callers : c \in Inside <=> lock = c
\* One caller holds the lock with its call of the Recorder under way while
\* the other has yet to get the lock, a session being recorded.
C20_Witness ==
  /\ pc[1] = "stop" /\ lock = 1
  /\ pc[2] = "idle"
  /\ process # NoProc
  /\ lastOp.op = "start"

\* A call of pause_session or finish_session is under way.
InCall == inflight # "none"
\* C21: every pause and every finish returns, and a finish leaves the
\* session Idle.  A call of pause_session or finish_session that is under
\* way eventually has returned, and a finish_session that is under way
\* eventually has returned with no process held, no config stored and no
\* segment listed.
C21_CallsReturnAndReachIdle ==
  /\ InCall ~> ~InCall
  /\ (inflight = "finish") ~> (~InCall /\ lastOp.op = "finish" /\ IdleState)

\* C22: pause_session and resume_session do nothing while no session
\* exists.  A pause or a resume called in an Idle state, whether the
\* Recorder is new or a finish has returned, returns Ok, spawns no capture
\* process and leaves every field of the Recorder, the paused flag
\* included, as it was.
C22_IdlePauseResumeChangeNothing ==
  [][ (IdleState /\ lastOp'.op \in {"pause", "resume"}) =>
        /\ lastOp'.ret = "Ok"
        /\ ~Issued({"spawn"})'
        /\ UNCHANGED << recorderVars, alive >> ]_vars

\* The segment files in the temp directory that the segment list no longer
\* names.
Orphaned == { p \in Timestamps : seg_files[p] # Absent /\ p \notin Range(temp_segments) }
\* C23: recorded footage is never orphaned.  Every segment file that exists
\* in the temp directory is named by the segment list: a path leaves the
\* list only when its file has been moved away, or merged and deleted.
C23_NoOrphanedFootage == Orphaned = {}

====
